---- MODULE Spec2Model ----
(***************************************************************************)
(* Model of the Markdown block parser, inline tokenizer and node walker of *)
(* rtfb/mdast-playground (src/ast.go, src/inline.go).                      *)
(*                                                                         *)
(* Bytes are integers 0..255, byte buffers are sequences of bytes.  Go     *)
(* slices are 0-based; the operators below take 0-based positions and      *)
(* convert at the point of indexing.  Node pointers are indices into the   *)
(* arena `nodes`; 0 is nil.  The uint32 fields stay below the length of   *)
(* the input plus one and no subtraction of the source goes below zero,   *)
(* so they are plain naturals here.                                        *)
(***************************************************************************)
EXTENDS Integers, Sequences, FiniteSets, TLC

\* ------------------------------------------------------------------ bytes
TAB == 9
LF == 10
CR == 13
SP == 32
BANG == 33
DQUOTE == 34
HASH == 35
AMP == 38
SQUOTE == 39
STAR == 42
DASH == 45
LT == 60
GT == 62
LBRACKET == 91
RBRACKET == 93
UNDERSCORE == 95
BACKTICK == 96
InvalidChar == 255
MaxHeaderLevel == 6
MinHruleMarks == 3
TabStop == 4
CodeIndent == 4


\* ----------------------------------------------------------------- bounds
\* Longest byte buffer in the exhaustively enumerated part of the inputs.
MaxLen == 4

\* Number of nodes of the arena on which appendChild and unlink are applied
\* in any order.
MaxNodes == 4

\* ------------------------------------------------------- generic helpers
\* The one element of a singleton.  Only({f(x) : x \in {e}}) is f(e) with e
\* evaluated once: every statement of the program sees one value of the
\* parser and of the nodes.
Only(S) == CHOOSE v \in S : TRUE

\* s[from:] of Go (0-based, from <= len)
SliceFrom(s, from) == SubSeq(s, from + 1, Len(s))

\* s[from:to] of Go
Slice(s, from, to) == SubSeq(s, from + 1, to)

RECURSIVE SeqsUpTo(_, _)
SeqsUpTo(A, n) ==
    IF n = 0 THEN {<<>>}
    ELSE LET S == SeqsUpTo(A, n - 1)
         IN S \cup {Append(s, a) : s \in {t \in S : Len(t) = n - 1}, a \in A}

\* number of consecutive bytes equal to c in s starting at 0-based pos
RECURSIVE RunLen(_, _, _)
RunLen(s, pos, c) ==
    IF pos < Len(s) /\ s[pos + 1] = c THEN 1 + RunLen(s, pos + 1, c) ELSE 0

\* bytes.Split(input, "\n"): always at least one (possibly empty) piece
RECURSIVE SplitFrom(_, _, _)
SplitFrom(s, i, cur) ==
    IF i > Len(s) THEN <<cur>>
    ELSE IF s[i] = LF THEN <<cur>> \o SplitFrom(s, i + 1, <<>>)
    ELSE SplitFrom(s, i + 1, Append(cur, s[i]))

Split(s) == SplitFrom(s, 1, <<>>)

\* func peek(line, pos): the byte at pos, 0 past the end
peek(line, pos) == IF pos < Len(line) THEN line[pos + 1] ELSE 0

\* bytes.Trim(s, " \n\r") as used by InlineParser.parse
IsTrimByte(c) == c = SP \/ c = LF \/ c = CR

RECURSIVE TrimLeft(_)
TrimLeft(s) == IF s # <<>> /\ IsTrimByte(Head(s)) THEN TrimLeft(Tail(s)) ELSE s

RECURSIVE TrimRight(_)
TrimRight(s) ==
    IF s # <<>> /\ IsTrimByte(s[Len(s)]) THEN TrimRight(SubSeq(s, 1, Len(s) - 1)) ELSE s

Trim(s) == TrimRight(TrimLeft(s))

\* ------------------------------------------------------------ the regexps
\* The marker with a bound of seven instead of six: ^#{1,7}(?: +|$).  The
\* header claims must tell it from reATXHeaderMarker.
reATXHeaderMarkerSeven(s) ==
    LET n == RunLen(s, 0, HASH)
        sp == RunLen(s, n, SP)
    IN IF n >= 1 /\ n <= MaxHeaderLevel + 1 /\ (sp >= 1 \/ n = Len(s)) THEN n + sp ELSE -1

\* reATXHeaderMarker = ^#{1,6}(?: +|$) : length of the match, or -1 for nil.
\* The run of # must be maximal (the byte after it is a space or the end),
\* so a run of 7 or more never matches.
reATXHeaderMarker(s) ==
    LET n == RunLen(s, 0, HASH)
        sp == RunLen(s, n, SP)
    IN IF n >= 1 /\ n <= MaxHeaderLevel /\ (sp >= 1 \/ n = Len(s)) THEN n + sp ELSE -1

\* reHrule = ^(?:(?:\* *){3,}|(?:_ *){3,}|(?:- *){3,}) *$
RECURSIVE CountByte(_, _)
CountByte(s, c) ==
    IF s = <<>> THEN 0 ELSE (IF Head(s) = c THEN 1 ELSE 0) + CountByte(Tail(s), c)

reHrule(s) ==
    /\ s # <<>>
    /\ s[1] \in {STAR, UNDERSCORE, DASH}
    /\ \A k \in 1..Len(s) : s[k] = s[1] \/ s[k] = SP
    /\ CountByte(s, s[1]) >= MinHruleMarks

\* "^ *#+ *$" : the whole of s is spaces, one or more #, spaces
reLeftMatches(s) ==
    LET a == RunLen(s, 0, SP)
        h == RunLen(s, a, HASH)
        b == RunLen(s, a + h, SP)
    IN h >= 1 /\ a + h + b = Len(s)

\* " +#+ *$" matches s from 0-based position i to the end
reRightMatchesAt(s, i) ==
    LET a == RunLen(s, i, SP)
        h == RunLen(s, i + a, HASH)
        b == RunLen(s, i + a + h, SP)
    IN a >= 1 /\ h >= 1 /\ i + a + h + b = Len(s)

\* reRight.ReplaceAll(s, ""): the leftmost match is removed (it reaches the
\* end of s, so there is at most one)
reRightReplace(s) ==
    LET hits == {i \in 0..Len(s) : reRightMatchesAt(s, i)}
    IN IF hits = {} THEN s
       ELSE Slice(s, 0, CHOOSE i \in hits : \A j \in hits : i <= j)

\* reRight.ReplaceAll(reLeft.ReplaceAll(rest, ""), "")
headerContent(rest) == reRightReplace(IF reLeftMatches(rest) THEN <<>> ELSE rest)

\* reMain = ^[^\n`\[\]\!<&*_'"]+ : length of the match, 0 for nil
IsSpecial(c) ==
    c \in {LF, BACKTICK, LBRACKET, RBRACKET, BANG, LT, AMP, STAR, UNDERSCORE, SQUOTE, DQUOTE}

RECURSIVE reMain(_, _)
reMain(s, pos) ==
    IF pos < Len(s) /\ ~IsSpecial(s[pos + 1]) THEN 1 + reMain(s, pos + 1) ELSE 0

\* ------------------------------------------------------------- node tree
\* func NewNode(typ, src): a fresh node is open and unlinked
NewNode(typ, line, char) ==
    [Type |-> typ, parent |-> 0, firstChild |-> 0, lastChild |-> 0,
     prev |-> 0, next |-> 0, line |-> line, char |-> char,
     endLine |-> 0, endChar |-> 0, content |-> <<>>, level |-> 0,
     open |-> TRUE, lastLineBlank |-> FALSE, literal |-> <<>>]

\* func (n *Node) unlink(), lines 244-248: the link before n
unlinkPrev(ns, n) ==
    IF ns[n].prev # 0 THEN [ns EXCEPT ![ns[n].prev].next = ns[n].next]
    ELSE IF ns[n].parent # 0 THEN [ns EXCEPT ![ns[n].parent].firstChild = ns[n].next]
    ELSE ns

\* The link after n without the update of the parent's lastChild.  The claims
\* about the links must tell it from unlinkNext.
unlinkNextKeepsLast(ns, n) ==
    IF ns[n].next # 0 THEN [ns EXCEPT ![ns[n].next].prev = ns[n].prev]
    ELSE ns

\* func (n *Node) unlink(), lines 249-253: the link after n
unlinkNext(ns, n) ==
    IF ns[n].next # 0 THEN [ns EXCEPT ![ns[n].next].prev = ns[n].prev]
    ELSE IF ns[n].parent # 0 THEN [ns EXCEPT ![ns[n].parent].lastChild = ns[n].prev]
    ELSE ns

\* func (n *Node) unlink()
unlink(ns0, n) ==
    Only({[b EXCEPT ![n].parent = 0, ![n].next = 0, ![n].prev = 0] :
          b \in {Only({unlinkNext(a, n) : a \in {unlinkPrev(ns0, n)}})}})

\* func (n *Node) appendChild(child)
appendChild(ns0, n, child) ==
    Only({IF b[n].lastChild # 0
          THEN [b EXCEPT ![b[n].lastChild].next = child,
                         ![child].prev = b[n].lastChild,
                         ![n].lastChild = child,
                         ![child].parent = n]
          ELSE [b EXCEPT ![n].firstChild = child, ![n].lastChild = child,
                         ![child].parent = n] :
          b \in {unlink(ns0, child)}})

\* func (n *Node) isContainer()
isContainer(typ) ==
    typ \in {"Document", "BlockQuote", "List", "Item", "Paragraph", "Header",
             "Emph", "Strong", "Link", "Image"}

\* the children of n in sibling order, following firstChild/next
RECURSIVE SiblingsFrom(_, _, _)
SiblingsFrom(ns, c, fuel) ==
    IF c = 0 \/ fuel = 0 THEN <<>> ELSE <<c>> \o SiblingsFrom(ns, ns[c].next, fuel - 1)

Children(ns, n) == SiblingsFrom(ns, ns[n].firstChild, Len(ns))

\* n and its ancestors in the arena ns
RECURSIVE Ancestors(_, _, _)
Ancestors(ns, n, fuel) ==
    IF n = 0 \/ fuel = 0 THEN {} ELSE {n} \cup Ancestors(ns, ns[n].parent, fuel - 1)

\* ------------------------------------------------- block handler contract
\* CanContain of the five block handlers
CanContain(typ, child) ==
    CASE typ = "Document" -> child # "Item"
      [] typ = "BlockQuote" -> child # "Item"
      [] OTHER -> FALSE

\* AcceptsLines of the five block handlers
AcceptsLines(typ) == typ = "Paragraph"

\* ----------------------------------------------------------- the parser
\* The operators below work on a machine state
\*   m = [p |-> Parser fields, nodes |-> arena, fin |-> finalize log,
\*        ok |-> FALSE once a Go runtime panic has happened]
\* func NewParser()
NewParser ==
    [tip |-> 1, oldTip |-> 1, lineNumber |-> 0, lastLineLength |-> 0,
     offset |-> 0, column |-> 0, nextNonspace |-> 0, nextNonspaceColumn |-> 0,
     lastMatchedContainer |-> 1, currentLine |-> <<>>, indent |-> 0,
     indented |-> FALSE, blank |-> FALSE, allClosed |-> TRUE]

\* func (p *Parser) findNextNonspace(); the loop leaves in c a byte that
\* is \n or \r only if it stopped on one
RECURSIVE ScanSpace(_, _, _)
ScanSpace(line, i, cols) ==
    IF i < Len(line) /\ line[i + 1] = SP THEN ScanSpace(line, i + 1, cols + 1)
    ELSE IF i < Len(line) /\ line[i + 1] = TAB
         THEN ScanSpace(line, i + 1, cols + (TabStop - (cols % TabStop)))
    ELSE [i |-> i, cols |-> cols]

findNextNonspace(p0) ==
    Only({[q EXCEPT !.blank = ((r.i < Len(q.currentLine)
                                  /\ q.currentLine[r.i + 1] \in {LF, CR})
                               \/ r.i = Len(q.currentLine)),
                    !.nextNonspace = r.i,
                    !.nextNonspaceColumn = r.cols,
                    !.indent = r.cols - q.column,
                    !.indented = (r.cols - q.column >= CodeIndent)] :
          q \in {p0}, r \in {ScanSpace(p0.currentLine, p0.offset, p0.column)}})

\* func (p *Parser) advanceOffset(count, columns): ok is FALSE when
\* currentLine[offset+i] is read past the end of the line
RECURSIVE AdvanceLoop(_, _, _, _, _, _)
AdvanceLoop(q, count, columns, i, cols, fuel) ==
    IF (IF columns THEN cols >= count ELSE i >= count)
    THEN [i |-> i, cols |-> cols, ok |-> TRUE]
    ELSE IF q.offset + i >= Len(q.currentLine) \/ fuel = 0
         THEN [i |-> i, cols |-> cols, ok |-> FALSE]
    ELSE IF q.currentLine[q.offset + i + 1] = TAB
         THEN AdvanceLoop(q, count, columns, i + 1,
                          cols + (TabStop - ((q.column + cols) % TabStop)), fuel - 1)
    ELSE AdvanceLoop(q, count, columns, i + 1, cols + 1, fuel - 1)

advanceOffset(m0, count, columns) ==
    Only({IF ~m.ok THEN m
          ELSE Only({IF ~r.ok THEN [m EXCEPT !.ok = FALSE]
                     ELSE [m EXCEPT !.p.offset = m.p.offset + r.i,
                                    !.p.column = m.p.column + r.cols] :
                     r \in {AdvanceLoop(m.p, count, columns, 0, 0,
                                        Len(m.p.currentLine) + 1)}}) :
          m \in {m0}})

\* func (p *Parser) advanceNextNonspace()
advanceNextNonspace(m0) ==
    Only({[m EXCEPT !.p.offset = m.p.nextNonspace, !.p.column = m.p.nextNonspaceColumn] :
          m \in {m0}})

\* finalize that does not stamp endChar.  The claims about the end position
\* must tell it from finalize.
finalizeNoEndChar(m0, block, lineNumber) ==
    Only({IF ~m.ok THEN m
          ELSE IF block = 0 THEN [m EXCEPT !.ok = FALSE]
          ELSE [m EXCEPT !.nodes[block].open = FALSE,
                         !.nodes[block].endLine = lineNumber,
                         !.p.tip = m.nodes[block].parent,
                         !.fin = Append(m.fin, block)] :
          m \in {m0}})

\* finalize that leaves the tip where it is.  The claims about the tip and
\* the closed nodes must tell it from finalize.
finalizeKeepsTip(m0, block, lineNumber) ==
    Only({IF ~m.ok THEN m
          ELSE IF block = 0 THEN [m EXCEPT !.ok = FALSE]
          ELSE [m EXCEPT !.nodes[block].open = FALSE,
                         !.nodes[block].endLine = lineNumber,
                         !.nodes[block].endChar = m.p.lastLineLength,
                         !.fin = Append(m.fin, block)] :
          m \in {m0}})

\* finalize that leaves block.open as it is.  The claims about closed nodes
\* must tell it from finalize.
finalizeKeepsOpen(m0, block, lineNumber) ==
    Only({IF ~m.ok THEN m
          ELSE IF block = 0 THEN [m EXCEPT !.ok = FALSE]
          ELSE [m EXCEPT !.nodes[block].endLine = lineNumber,
                         !.nodes[block].endChar = m.p.lastLineLength,
                         !.p.tip = m.nodes[block].parent,
                         !.fin = Append(m.fin, block)] :
          m \in {m0}})

\* func (p *Parser) finalize(block, lineNumber); a nil block is a nil
\* dereference
finalize(m0, block, lineNumber) ==
    Only({IF ~m.ok THEN m
          ELSE IF block = 0 THEN [m EXCEPT !.ok = FALSE]
          ELSE [m EXCEPT !.nodes[block].open = FALSE,
                         !.nodes[block].endLine = lineNumber,
                         !.nodes[block].endChar = m.p.lastLineLength,
                         !.p.tip = m.nodes[block].parent,
                         !.fin = Append(m.fin, block)] :
          m \in {m0}})

\* func (p *Parser) closeUnmatchedBlocks(), lines 611-615: the loop
RECURSIVE CloseLoop(_, _)
CloseLoop(m0, fuel) ==
    Only({IF ~m.ok \/ m.p.oldTip = m.p.lastMatchedContainer THEN m
          ELSE IF m.p.oldTip = 0 \/ fuel = 0 THEN [m EXCEPT !.ok = FALSE]
          ELSE CloseLoop([finalize(m, m.p.oldTip, m.p.lineNumber - 1)
                             EXCEPT !.p.oldTip = m.nodes[m.p.oldTip].parent],
                         fuel - 1) :
          m \in {m0}})

\* func (p *Parser) closeUnmatchedBlocks()
closeUnmatchedBlocks(m0) ==
    Only({IF ~m.ok \/ m.p.allClosed THEN m
          ELSE [CloseLoop(m, Len(m.nodes) + 1) EXCEPT !.p.allClosed = TRUE] :
          m \in {m0}})

\* func (p *Parser) addChild(node, offset), lines 566-568: the loop
RECURSIVE AddChildClose(_, _, _)
AddChildClose(m0, typ, fuel) ==
    Only({IF ~m.ok THEN m
          ELSE IF m.p.tip = 0 \/ fuel = 0 THEN [m EXCEPT !.ok = FALSE]
          ELSE IF CanContain(m.nodes[m.p.tip].Type, typ) THEN m
          ELSE AddChildClose(finalize(m, m.p.tip, m.p.lineNumber - 1), typ, fuel - 1) :
          m \in {m0}})

\* addChild that does not make the new node the tip.  The claims about the
\* chain of open nodes must tell it from addChild.
addChildKeepsTip(m0, typ, offset) ==
    Only({IF ~c.ok THEN c
          ELSE [c EXCEPT !.nodes = appendChild(
                              Append(c.nodes, NewNode(typ, c.p.lineNumber, offset + 1)),
                              c.p.tip, Len(c.nodes) + 1)] :
          c \in {AddChildClose(m0, typ, Len(m0.nodes) + 1)}})

\* func (p *Parser) addChild(node, offset): returns the machine state; the
\* new node is the new tip
addChild(m0, typ, offset) ==
    Only({IF ~c.ok THEN c
          ELSE [c EXCEPT !.nodes = appendChild(
                              Append(c.nodes, NewNode(typ, c.p.lineNumber, offset + 1)),
                              c.p.tip, Len(c.nodes) + 1),
                         !.p.tip = Len(c.nodes) + 1] :
          c \in {AddChildClose(m0, typ, Len(m0.nodes) + 1)}})

\* addLine that appends the line without the line break.  The claims about
\* paragraph content must tell it from addLine.
addLineNoBreak(m0) ==
    Only({IF ~m.ok THEN m
          ELSE IF m.p.tip = 0 \/ m.p.offset > Len(m.p.currentLine)
               THEN [m EXCEPT !.ok = FALSE]
          ELSE [m EXCEPT !.nodes[m.p.tip].content =
                             @ \o SliceFrom(m.p.currentLine, m.p.offset)] :
          m \in {m0}})

\* func (p *Parser) addLine()
addLine(m0) ==
    Only({IF ~m.ok THEN m
          ELSE IF m.p.tip = 0 \/ m.p.offset > Len(m.p.currentLine)
               THEN [m EXCEPT !.ok = FALSE]
          ELSE [m EXCEPT !.nodes[m.p.tip].content =
                             @ \o SliceFrom(m.p.currentLine, m.p.offset) \o <<LF>>] :
          m \in {m0}})

\* ------------------------------------------------------ Continue handlers
\* BlockQuoteBlockHandler.Continue: consumes one > and one following space
BlockQuoteContinue(m0) ==
    Only({IF ~m.p.indented /\ peek(m.p.currentLine, m.p.nextNonspace) = GT
          THEN [m |-> Only({IF a.ok /\ peek(a.p.currentLine, a.p.offset) = SP
                            THEN [a EXCEPT !.p.offset = a.p.offset + 1]
                            ELSE a :
                            a \in {advanceOffset(advanceNextNonspace(m), 1, FALSE)}}),
                st |-> "Matched"]
          ELSE [m |-> m, st |-> "NotMatched"] :
          m \in {m0}})

\* ParagraphBlockHandler.Continue
ParagraphContinue(m0) ==
    Only({[m |-> m, st |-> IF m.p.blank THEN "NotMatched" ELSE "Matched"] : m \in {m0}})

\* blockHandlers[container.Type].Continue(p, container)
Continue(m0, typ) ==
    Only({CASE typ = "Document" -> [m |-> m, st |-> "Matched"]
            [] typ = "Header" -> [m |-> m, st |-> "NotMatched"]
            [] typ = "HorizontalRule" -> [m |-> m, st |-> "NotMatched"]
            [] typ = "BlockQuote" -> BlockQuoteContinue(m)
            [] typ = "Paragraph" -> ParagraphContinue(m)
            [] OTHER -> [m |-> [m EXCEPT !.ok = FALSE], st |-> "NotMatched"] :
          m \in {m0}})

\* --------------------------------------------------- block start triggers
\* atxHeaderTrigger, lines 407-410: the level is the number of # of the
\* match, the content is the rest of the line without a closing sequence
headerFill(m0) ==
    Only({IF ~m.ok THEN m
          ELSE [m EXCEPT !.nodes[m.p.tip].level =
                             RunLen(m.p.currentLine, m.p.nextNonspace, HASH),
                         !.nodes[m.p.tip].content =
                             headerContent(SliceFrom(m.p.currentLine, m.p.offset))] :
          m \in {m0}})

\* advanceOffset(len(currentLine) - offset, false) of the two leaf triggers
advanceToEnd(m0) ==
    Only({IF ~m.ok THEN m
          ELSE advanceOffset(m, Len(m.p.currentLine) - m.p.offset, FALSE) :
          m \in {m0}})

\* func atxHeaderTrigger
atxHeaderTrigger(m0) ==
    Only({IF ~m.p.indented /\ k # -1
          THEN [m |-> advanceToEnd(headerFill(addChild(
                          closeUnmatchedBlocks(
                              advanceOffset(advanceNextNonspace(m), k, FALSE)),
                          "Header", m.p.nextNonspace))),
                st |-> "LeafMatch"]
          ELSE [m |-> m, st |-> "NoMatch"] :
          m \in {m0},
          k \in {reATXHeaderMarker(SliceFrom(m0.p.currentLine, m0.p.nextNonspace))}})

\* hruleTrigger without the test of p.indented.  The thematic break claims
\* must tell it from hruleTrigger.
hruleTriggerAnyIndent(m0) ==
    Only({IF reHrule(SliceFrom(m.p.currentLine, m.p.nextNonspace))
          THEN [m |-> advanceToEnd(addChild(closeUnmatchedBlocks(m),
                                            "HorizontalRule", m.p.nextNonspace)),
                st |-> "LeafMatch"]
          ELSE [m |-> m, st |-> "NoMatch"] :
          m \in {m0}})

\* func hruleTrigger
hruleTrigger(m0) ==
    Only({IF ~m.p.indented /\ reHrule(SliceFrom(m.p.currentLine, m.p.nextNonspace))
          THEN [m |-> advanceToEnd(addChild(closeUnmatchedBlocks(m),
                                            "HorizontalRule", m.p.nextNonspace)),
                st |-> "LeafMatch"]
          ELSE [m |-> m, st |-> "NoMatch"] :
          m \in {m0}})

\* blockquoteTrigger, lines 441-443: one space after the > is skipped
skipSpace(m0) ==
    Only({IF a.ok /\ peek(a.p.currentLine, a.p.offset) = SP
          THEN advanceOffset(a, 1, FALSE)
          ELSE a :
          a \in {m0}})

\* func blockquoteTrigger
blockquoteTrigger(m0) ==
    Only({IF ~m.p.indented /\ peek(m.p.currentLine, m.p.nextNonspace) = GT
          THEN [m |-> addChild(closeUnmatchedBlocks(skipSpace(
                                   advanceOffset(advanceNextNonspace(m), 1, FALSE))),
                               "BlockQuote", m.p.nextNonspace),
                st |-> "ContainerMatch"]
          ELSE [m |-> m, st |-> "NoMatch"] :
          m \in {m0}})

\* var blockTriggers, tried in this order; the first that matches wins
blockTriggers(m0) ==
    Only({IF h.st # "NoMatch" THEN h
          ELSE Only({IF r.st # "NoMatch" THEN r ELSE blockquoteTrigger(m0) :
                     r \in {hruleTrigger(m0)}}) :
          h \in {atxHeaderTrigger(m0)}})

\* ------------------------------------------------------------- the walker
\* func NewNodeWalker(root)
NewNodeWalker(root) == [current |-> root, root |-> 0, entering |-> TRUE]

\* func (nw *NodeWalker) next(): the walker after the call and what it
\* returned
walkerNext(w, ns) ==
    LET moved ==
            IF w.entering /\ isContainer(ns[w.current].Type)
            THEN IF ns[w.current].firstChild # 0
                 THEN [w EXCEPT !.current = ns[w.current].firstChild, !.entering = TRUE]
                 ELSE [w EXCEPT !.entering = FALSE]
            ELSE IF ns[w.current].next = 0
                 THEN [w EXCEPT !.current = ns[w.current].parent, !.entering = FALSE]
                 ELSE [w EXCEPT !.current = ns[w.current].next, !.entering = TRUE]
    IN IF w.current = 0 THEN [w |-> w, node |-> 0, entering |-> FALSE]
       ELSE IF w.root = 0
            THEN [w |-> [w EXCEPT !.root = w.current], node |-> w.current,
                  entering |-> w.entering]
       ELSE IF moved.current = moved.root
            THEN [w |-> moved, node |-> 0, entering |-> FALSE]
       ELSE [w |-> moved, node |-> moved.current, entering |-> moved.entering]

\* ------------------------------------------------------ the inline parser
\* func (p *InlineParser) peek()
inlinePeek(subj, at) == IF at < Len(subj) THEN subj[at + 1] ELSE InvalidChar

\* func text(s)
text(s) == [NewNode("Text", 1, 1) EXCEPT !.literal = s]

\* func (p *InlineParser) scanDelims(ch): the number of delimiters
scanDelims(subj, at, ch) ==
    IF ch = SQUOTE \/ ch = DQUOTE THEN 1 ELSE RunLen(subj, at, ch)

\* one call of parseInline(block): ok = FALSE is the `return false`, else the
\* new position and the literal of the Text node that was appended
parseInline(subj, at) ==
    LET ch == inlinePeek(subj, at)
        nd == scanDelims(subj, at, ch)
        ns == reMain(subj, at)
    IN IF ch = InvalidChar THEN [ok |-> FALSE, pos |-> at, lit |-> <<>>]
       ELSE IF ch \in {STAR, UNDERSCORE} /\ nd >= 1
            THEN [ok |-> TRUE, pos |-> at + nd, lit |-> Slice(subj, at, at + nd)]
       ELSE IF ch \notin {STAR, UNDERSCORE} /\ ns > 0
            THEN [ok |-> TRUE, pos |-> at + ns, lit |-> Slice(subj, at, at + ns)]
       ELSE [ok |-> TRUE, pos |-> at + 1, lit |-> <<ch>>]

\* ------------------------------------------------------------ the renderer
\* func tag(name, attrs, selfClosing): attrs are never written
tag(name, selfClosing) ==
    <<LT>> \o name \o (IF selfClosing THEN <<SP, 47>> ELSE <<>>) \o <<GT>>

\* esc of render: returns its argument
esc(t, preserveEntities) == t

\* out of render
out(st, t) == [st EXCEPT !.buff = st.buff \o t, !.lastOutput = t]

\* cr of render
cr(st) ==
    IF st.lastOutput # <<LF>>
    THEN [st EXCEPT !.buff = st.buff \o <<LF>>, !.lastOutput = <<LF>>]
    ELSE st

\* fmt.Sprintf("h%d", level), for the levels below ten
tagname(level) == <<104, 48 + level>>

\* the callback render hands to forEachNode, for a node of the given type,
\* literal and level; an unknown type is a panic
renderNode(st, typ, literal, level, ent) ==
    CASE typ = "Text" -> out(st, esc(literal, FALSE))
      [] typ = "Emph" ->
           out(st, tag(IF ent THEN <<101, 109>> ELSE <<47, 101, 109>>, FALSE))
      [] typ = "Strong" ->
           out(st, tag(IF ent THEN <<115, 116, 114, 111, 110, 103>>
                       ELSE <<47, 115, 116, 114, 111, 110, 103>>, FALSE))
      [] typ = "Document" -> st
      [] typ = "Paragraph" ->
           IF ent THEN out(cr(st), tag(<<112>>, FALSE))
           ELSE cr(out(st, tag(<<47, 112>>, FALSE)))
      [] typ = "BlockQuote" ->
           IF ent
           THEN cr(out(cr(st), tag(<<98, 108, 111, 99, 107, 113, 117, 111, 116, 101>>,
                                   FALSE)))
           ELSE cr(out(cr(st), tag(<<47, 98, 108, 111, 99, 107, 113, 117, 111, 116, 101>>,
                                   FALSE)))
      [] typ = "Header" ->
           IF ent THEN out(cr(st), tag(tagname(level), FALSE))
           ELSE cr(out(st, tag(<<47>> \o tagname(level), FALSE)))
      [] typ = "HorizontalRule" -> cr(out(cr(st), tag(<<104, 114>>, TRUE)))
      [] OTHER -> [st EXCEPT !.ok = FALSE]

\* func render(ast), after the callback was called on the visits vs of
\* forEachNode(ast) in the arena ns
RECURSIVE render(_, _)
render(ns, vs) ==
    IF vs = <<>> THEN [buff |-> <<>>, lastOutput |-> <<>>, ok |-> TRUE]
    ELSE renderNode(render(ns, SubSeq(vs, 1, Len(vs) - 1)),
                    ns[vs[Len(vs)].node].Type, ns[vs[Len(vs)].node].literal,
                    ns[vs[Len(vs)].node].level, vs[Len(vs)].entering)

\* ----------------------------------------------------------------- inputs
\* The documents the specification names, as byte buffers.
SampleDocs ==
    {
      <<35, 32, 72, 101, 108, 108, 111>>,   \* # Hello
      <<35, 35, 35, 35, 35, 35, 35, 32, 120>>,   \* ####### x
      <<35, 32, 72, 101, 108, 108, 111, 32, 35>>,   \* # Hello #
      <<42, 42, 42>>,   \* ***
      <<45, 32, 45, 32, 45>>,   \* - - -
      <<95, 95, 95>>,   \* ___
      <<32, 42, 42, 42>>,   \* one space, ***
      <<32, 32, 32, 45, 32, 45, 32, 45>>,   \* three spaces, - - -
      <<32, 32, 32, 95, 95, 95>>,   \* three spaces, ___
      <<32, 32, 32, 32, 42, 42, 42>>,   \* four spaces, ***
      <<32, 32, 32, 32, 45, 32, 45, 32, 45>>,   \* four spaces, - - -
      <<32, 32, 32, 32, 32, 95, 95, 95>>,   \* five spaces, ___
      <<62, 102, 111, 111, 10, 98, 97, 114>>,   \* >foo LF bar
      <<62, 102, 111, 111, 10, 35, 32, 72, 101, 97, 100, 105, 110, 103>>,   \* >foo LF # Heading
      <<102, 111, 111, 10, 35, 32, 72, 101, 97, 100, 105, 110, 103>>,   \* foo LF # Heading
      <<42, 102, 111, 111, 42>>,   \* *foo*
      <<42, 42, 102, 111, 111, 42, 42>>,   \* **foo**
      <<102, 111, 111, 95, 98, 97, 114, 95, 98, 97, 122>>,   \* foo_bar_baz
      <<42, 102, 111, 111, 32, 42, 42, 98, 97, 114, 42, 42, 32, 98, 97, 122, 42>>,   \* *foo **bar** baz*
      <<42, 102, 111, 111>>,   \* *foo
      <<255, 42>>,   \* 0xFF *
      <<102, 111, 111, 255, 95, 98, 97, 114>>,   \* foo 0xFF _bar
      <<62, 32, 35, 32, 72, 10, 10, 45, 32, 45, 32, 45>>,   \* > # H LF LF - - -
      <<62, 62, 32, 97, 10, 10, 95, 95, 95, 10, 98>>,   \* >> a LF LF ___ LF b
      <<97, 38, 98, 60, 99, 62, 34>>,   \* a&b<c>"
      <<9, 42, 42, 42>>,   \* TAB ***
      <<35, 32, 72, 10, 9, 42, 42, 42>>,   \* # H LF TAB ***
      <<62, 32, 97, 10, 10, 9, 45, 32, 45, 32, 45>>,   \* > a LF LF TAB - - -
      <<62, 32, 97, 10, 10, 98>>,   \* > a LF LF b
      <<97, 10, 9, 32, 10, 9, 98>>   \* a LF TAB SP LF TAB b
    }

\* bytes of the exhaustively enumerated buffers
Alphabet == {HASH, SP, GT, STAR, LF, 97}

Inputs == SeqsUpTo(Alphabet, MaxLen) \cup SampleDocs

\* ------------------------------------------------------------------ state
VARIABLES
    input,       \* the byte buffer handed to parse
    pc,          \* where the program is
    lines,       \* p.lines
    numLines,    \* local of parse
    i,           \* loop variable of parse
    p,           \* the Parser fields
    nodes,       \* the node arena; nodes[1] is the Document
    fin,         \* history: the blocks finalize was called on, in order
    container,   \* local of incorporateLine
    lastChild,   \* local of incorporateLine
    allMatched,  \* local of incorporateLine
    matchedLeaf, \* local of incorporateLine
    pre,         \* history: snapshot taken when incorporateLine is entered
    walker,      \* the NodeWalker in use
    node,        \* loop variable of processInlines / forEachNode
    subject,     \* InlineParser.subject
    pos,         \* InlineParser.pos
    entering,    \* local of forEachNode
    visits,      \* history: what forEachNode handed to its callback
    parsed       \* history: the nodes InlineParser.parse was called on

vars == <<input, pc, lines, numLines, i, p, nodes, fin, container, lastChild,
          allMatched, matchedLeaf, pre, walker, node, subject, pos, entering, visits,
          parsed>>

parseVars == <<lines, numLines, i>>
lineVars == <<container, lastChild, allMatched, matchedLeaf>>
inlineVars == <<walker, node, subject, pos, entering>>

M == [p |-> p, nodes |-> nodes, fin |-> fin, ok |-> TRUE]

\* store a machine state; a panic ends the program
Commit(m, nextpc) ==
    /\ p' = m.p
    /\ nodes' = m.nodes
    /\ fin' = m.fin
    /\ pc' = IF m.ok THEN nextpc ELSE "panic"

NoPre == [line |-> 0, nNodes |-> 0, nFin |-> 0, tip |-> 0, nodes |-> <<>>]

Init ==
    /\ input \in Inputs
    /\ pc = "start"
    /\ lines = <<>>
    /\ numLines = 0
    /\ i = 0
    /\ p = NewParser
    /\ nodes = <<NewNode("Document", 1, 1)>>
    /\ fin = <<>>
    /\ container = 0
    /\ lastChild = 0
    /\ allMatched = TRUE
    /\ matchedLeaf = FALSE
    /\ pre = NoPre
    /\ walker = NewNodeWalker(0)
    /\ node = 0
    /\ subject = <<>>
    /\ pos = 0
    /\ entering = FALSE
    /\ visits = <<>>
    /\ parsed = <<>>

\* ---------------------------------------------------------------- actions
\* parse, lines 644-650: split the buffer; input[len(input)-1] is out of
\* range for the empty buffer
ParseStart ==
    /\ pc = "start"
    /\ IF Len(input) = 0
       THEN /\ pc' = "panic"
            /\ lines' = Split(input)
            /\ numLines' = Len(Split(input))
       ELSE /\ pc' = "lines"
            /\ lines' = Split(input)
            /\ numLines' = IF input[Len(input)] = LF
                           THEN Len(Split(input)) - 1
                           ELSE Len(Split(input))
    /\ UNCHANGED <<input, parsed, i, p, nodes, fin, lineVars, pre, inlineVars, visits>>

\* incorporateLine, lines 453-460
IncorporateLineBegin ==
    /\ pc = "lines"
    /\ i < numLines
    /\ allMatched' = TRUE
    /\ container' = 1
    /\ p' = [p EXCEPT !.oldTip = p.tip, !.offset = 0,
                      !.lineNumber = p.lineNumber + 1,
                      !.currentLine = lines[i + 1]]
    /\ lastChild' = nodes[1].lastChild
    /\ pre' = [line |-> i + 1, nNodes |-> Len(nodes), nFin |-> Len(fin),
               tip |-> p.tip, nodes |-> nodes]
    /\ pc' = "redescend"
    /\ UNCHANGED <<input, parsed, parseVars, nodes, fin, matchedLeaf, inlineVars, visits>>

\* incorporateLine, lines 462-475: the body of the loop over the open
\* containers, applied to the current state
RedescendTurn ==
    Continue([M EXCEPT !.p = findNextNonspace(p)], nodes[lastChild].Type)

\* incorporateLine, lines 461-480: one turn of the loop over the open
\* containers.  lastChild is not reassigned in the loop body.
Redescend ==
    /\ pc = "redescend"
    /\ IF lastChild # 0 /\ nodes[lastChild].open
       THEN \E r \in {RedescendTurn} :
               /\ allMatched' = (r.st = "Matched")
               /\ container' = IF r.st = "Matched" THEN lastChild
                               ELSE nodes[lastChild].parent
               /\ Commit(r.m, IF r.st = "Matched" THEN "redescend" ELSE "matched")
       ELSE /\ pc' = "matched"
            /\ UNCHANGED <<p, nodes, fin, container, allMatched>>
    /\ UNCHANGED <<input, parsed, parseVars, lastChild, matchedLeaf, pre, inlineVars, visits>>

\* incorporateLine, lines 481-483
AfterRedescend ==
    /\ pc = "matched"
    /\ p' = [p EXCEPT !.allClosed = (container = p.oldTip),
                      !.lastMatchedContainer = container]
    /\ matchedLeaf' = (nodes[container].Type # "Paragraph"
                       /\ AcceptsLines(nodes[container].Type))
    /\ pc' = "blockstart"
    /\ UNCHANGED <<input, parsed, parseVars, nodes, fin, container, lastChild, allMatched,
                   pre, inlineVars, visits>>

\* incorporateLine, lines 484-506: one turn of the block start loop
BlockStart ==
    /\ pc = "blockstart"
    /\ IF matchedLeaf
       THEN /\ pc' = "addtext"
            /\ UNCHANGED <<p, nodes, fin, container, matchedLeaf>>
       ELSE \E m0 \in {[M EXCEPT !.p = findNextNonspace(p)]} :
            \E r \in {blockTriggers(m0)} :
               IF r.st # "NoMatch"
               THEN /\ container' = r.m.p.tip
                    /\ matchedLeaf' = (r.st = "LeafMatch")
                    /\ Commit(r.m, "blockstart")
               ELSE /\ Commit(advanceNextNonspace(m0), "addtext")
                    /\ UNCHANGED <<container, matchedLeaf>>
    /\ UNCHANGED <<input, parsed, parseVars, lastChild, allMatched, pre, inlineVars, visits>>

\* lines 511-523: the lastLineBlank marks
RECURSIVE MarkUp(_, _, _, _)
MarkUp(ns, c, v, fuel) ==
    IF c = 0 \/ fuel = 0 THEN ns
    ELSE MarkUp([ns EXCEPT ![c].lastLineBlank = v], ns[c].parent, v, fuel - 1)

MarkBlank(m0, cont) ==
    Only({IF ~m.ok THEN m
          ELSE [m EXCEPT !.nodes =
                    MarkUp(IF m.p.blank /\ m.nodes[cont].lastChild # 0
                           THEN [m.nodes EXCEPT ![m.nodes[cont].lastChild].lastLineBlank = TRUE]
                           ELSE m.nodes,
                           cont, m.p.blank, Len(m.nodes))] :
          m \in {m0}})

\* lines 524-536: the line goes to the container if it accepts lines, else
\* what is left of a non-blank line opens a Paragraph
AddToContainer(m0, t) ==
    Only({IF ~m.ok THEN m
          ELSE IF AcceptsLines(t) THEN addLine(m)
          ELSE IF m.p.offset < Len(m.p.currentLine) /\ ~m.p.blank
               THEN addLine(advanceNextNonspace(addChild(m, "Paragraph", m.p.offset)))
          ELSE m :
          m \in {m0}})

\* The same with a lazy continuation that does not test p.blank.  The claims
\* about blank lines must tell it from AddTextResult.
AddTextResultLazyBlank ==
    Only({[m EXCEPT !.p.lastLineLength = Len(m.p.currentLine)] :
          m \in {IF ~p.allClosed /\ p.tip = 0 THEN [M EXCEPT !.ok = FALSE]
                 ELSE IF ~p.allClosed /\ nodes[p.tip].Type = "Paragraph"
                      THEN addLine(M)
                 ELSE AddToContainer(MarkBlank(closeUnmatchedBlocks(M), container),
                                     nodes[container].Type)}})

\* incorporateLine, lines 507-538 applied to the current state: lazy
\* continuation, or close the unmatched blocks and put the rest of the line
\* into a paragraph
AddTextResult ==
    Only({[m EXCEPT !.p.lastLineLength = Len(m.p.currentLine)] :
          m \in {IF ~p.allClosed /\ ~p.blank /\ p.tip = 0 THEN [M EXCEPT !.ok = FALSE]
                 ELSE IF ~p.allClosed /\ ~p.blank /\ nodes[p.tip].Type = "Paragraph"
                      THEN addLine(M)
                 ELSE AddToContainer(MarkBlank(closeUnmatchedBlocks(M), container),
                                     nodes[container].Type)}})

AddText ==
    /\ pc = "addtext"
    /\ \E e \in {AddTextResult} :
          /\ container' = IF e.ok /\ Len(e.nodes) > Len(nodes) THEN e.p.tip
                          ELSE container
          /\ Commit(e, "lines")
    /\ i' = i + 1
    /\ UNCHANGED <<input, parsed, lines, numLines, lastChild, allMatched, matchedLeaf, pre,
                   inlineVars, visits>>

\* parse, lines 651-653: the loop over the lines ends
LinesEnd ==
    /\ pc = "lines"
    /\ i >= numLines
    /\ pc' = "finalize"
    /\ UNCHANGED <<input, parsed, parseVars, p, nodes, fin, lineVars, pre, inlineVars, visits>>

\* parse, lines 654-656: one turn of the end-of-input loop
FinalizeTip ==
    /\ pc = "finalize"
    /\ IF p.tip # 0
       THEN Commit(finalize(M, p.tip, numLines), "finalize")
       ELSE /\ pc' = "processInlines"
            /\ UNCHANGED <<p, nodes, fin>>
    /\ UNCHANGED <<input, parsed, parseVars, lineVars, pre, inlineVars, visits>>

\* processInlines, lines 552-553: the walker and the loop variable
ProcessInlinesBegin ==
    /\ pc = "processInlines"
    /\ walker' = NewNodeWalker(1)
    /\ node' = 1
    /\ pc' = "inlinesLoop"
    /\ UNCHANGED <<input, parsed, parseVars, p, nodes, fin, lineVars, pre, subject, pos,
                   entering, visits>>

\* processInlines, lines 553-556, and InlineParser.parse, lines 110-111: the
\* loop test and the start of the inline parse of a Paragraph or Header;
\* parse returns the Document when the loop ends (line 658)
InlinesLoop ==
    /\ pc = "inlinesLoop"
    /\ IF node = 0
       THEN /\ pc' = "done"
            /\ UNCHANGED <<subject, pos, parsed>>
       ELSE IF nodes[node].Type \in {"Paragraph", "Header"}
            THEN /\ subject' = Trim(nodes[node].content)
                 /\ pos' = 0
                 /\ parsed' = Append(parsed, node)
                 /\ pc' = "inline"
            ELSE /\ pc' = "inlinesNext"
                 /\ UNCHANGED <<subject, pos, parsed>>
    /\ UNCHANGED <<input, parseVars, p, nodes, fin, lineVars, pre, walker, node,
                   entering, visits>>

\* InlineParser.parse, lines 112-115: one call of parseInline
InlineStep ==
    /\ pc = "inline"
    /\ LET r == parseInline(subject, pos)
           id == Len(nodes) + 1
       IN IF r.ok
          THEN /\ nodes' = appendChild(Append(nodes, text(r.lit)), node, id)
               /\ pos' = r.pos
               /\ pc' = "inline"
          ELSE /\ nodes' = [nodes EXCEPT ![node].content = <<>>]
               /\ pos' = pos
               /\ pc' = "inlinesNext"
    /\ UNCHANGED <<input, parsed, parseVars, p, fin, lineVars, pre, walker, node, subject,
                   entering, visits>>

\* processInlines, line 553: node, _ = walker.next()
InlinesNext ==
    /\ pc = "inlinesNext"
    /\ LET r == walkerNext(walker, nodes)
       IN /\ walker' = r.w
          /\ node' = r.node
    /\ pc' = "inlinesLoop"
    /\ UNCHANGED <<input, parsed, parseVars, p, nodes, fin, lineVars, pre, subject, pos,
                   entering, visits>>

\* forEachNode, lines 662-663, called on a node of the parsed tree
ForEachNodeBegin ==
    /\ pc = "done"
    /\ \E root \in 1..Len(nodes) :
          LET r == walkerNext(NewNodeWalker(root), nodes)
          IN /\ walker' = r.w
             /\ node' = r.node
             /\ entering' = r.entering
    /\ visits' = <<>>
    /\ pc' = "walking"
    /\ UNCHANGED <<input, parsed, parseVars, p, nodes, fin, lineVars, pre, subject, pos>>

\* forEachNode, lines 664-667: one turn of the loop
ForEachNodeStep ==
    /\ pc = "walking"
    /\ IF node # 0
       THEN LET r == walkerNext(walker, nodes)
            IN /\ visits' = Append(visits, [node |-> node, entering |-> entering])
               /\ walker' = r.w
               /\ node' = r.node
               /\ entering' = r.entering
               /\ pc' = "walking"
       ELSE /\ pc' = "walked"
            /\ UNCHANGED <<visits, walker, node, entering>>
    /\ UNCHANGED <<input, parsed, parseVars, p, nodes, fin, lineVars, pre, subject, pos>>

\* NodeWalker.next driven by hand after forEachNode has seen the end signal:
\* one more call
NextAfterEnd ==
    /\ pc \in {"walked", "again"}
    /\ \E r \in {walkerNext(walker, nodes)} :
          /\ walker' = r.w
          /\ node' = r.node
          /\ entering' = r.entering
    /\ pc' = "again"
    /\ UNCHANGED <<input, parsed, parseVars, p, nodes, fin, lineVars, pre, subject, pos, visits>>

Next ==
    \/ ParseStart
    \/ IncorporateLineBegin
    \/ Redescend
    \/ AfterRedescend
    \/ BlockStart
    \/ AddText
    \/ LinesEnd
    \/ FinalizeTip
    \/ ProcessInlinesBegin
    \/ InlinesLoop
    \/ InlineStep
    \/ InlinesNext
    \/ ForEachNodeBegin
    \/ ForEachNodeStep
    \/ NextAfterEnd

Spec == Init /\ [][Next]_vars

\* ------------------------------------------------ the tree operations alone
\* An arena of fresh nodes, on which appendChild and unlink are called in any
\* order; the parser does not run.
TreeInit ==
    /\ input = <<>>
    /\ pc = "tree"
    /\ lines = <<>>
    /\ numLines = 0
    /\ i = 0
    /\ p = NewParser
    /\ nodes = [k \in 1..MaxNodes |->
                   NewNode(IF k = 1 THEN "Document" ELSE "BlockQuote", 1, 1)]
    /\ fin = <<>>
    /\ container = 0
    /\ lastChild = 0
    /\ allMatched = TRUE
    /\ matchedLeaf = FALSE
    /\ pre = NoPre
    /\ walker = NewNodeWalker(0)
    /\ node = 0
    /\ subject = <<>>
    /\ pos = 0
    /\ entering = FALSE
    /\ visits = <<>>
    /\ parsed = <<>>

\* parent.appendChild(child), child not parent nor an ancestor of parent
TreeAppend(parent, child) ==
    /\ pc = "tree"
    /\ child \notin Ancestors(nodes, parent, Len(nodes))
    /\ nodes' = appendChild(nodes, parent, child)
    /\ UNCHANGED <<input, parsed, pc, parseVars, p, fin, lineVars, pre, inlineVars, visits>>

\* n.unlink()
TreeUnlink(n) ==
    /\ pc = "tree"
    /\ nodes' = unlink(nodes, n)
    /\ UNCHANGED <<input, parsed, pc, parseVars, p, fin, lineVars, pre, inlineVars, visits>>

TreeNext ==
    \/ \E parent, child \in 1..MaxNodes : TreeAppend(parent, child)
    \/ \E n \in 1..MaxNodes : TreeUnlink(n)

TreeSpec == TreeInit /\ [][TreeNext]_vars

\* ================================================================ claims
\* parse has returned (the walker runs afterwards) or the program aborted
Returned == pc \in {"done", "walking", "walked", "again"}
Stopped == Returned \/ pc = "panic"

\* incorporateLine is running
InLine == pc \in {"redescend", "matched", "blockstart", "addtext"}

\* incorporateLine has just returned from line number n of the input
LineDone(n) == pc = "lines" /\ i = n /\ pre.line = n /\ n >= 1

\* the line incorporateLine was last called with
Line == lines[pre.line]

\* the leading spaces of a line and what follows them
Indent(line) == RunLen(line, 0, SP)
Rest(line) == SliceFrom(line, Indent(line))

\* the nodes created since incorporateLine was entered
NewNodes == (pre.nNodes + 1)..Len(nodes)

\* the tip was an open Paragraph when incorporateLine was entered
ParagraphWasOpen ==
    /\ pre.line >= 1
    /\ pre.tip # 0
    /\ pre.nodes[pre.tip].Type = "Paragraph"
    /\ pre.nodes[pre.tip].open

RECURSIVE Concat(_)
Concat(ss) == IF ss = <<>> THEN <<>> ELSE Head(ss) \o Concat(Tail(ss))

\* the literals of the children of n, in sibling order
Literals(n) ==
    [k \in 1..Len(Children(nodes, n)) |-> nodes[Children(nodes, n)[k]].literal]

\* the types of the children of n, in sibling order
KidTypes(n) ==
    [k \in 1..Len(Children(nodes, n)) |-> nodes[Children(nodes, n)[k]].Type]

Foo == <<102, 111, 111>>
Bar == <<98, 97, 114>>
Hello == <<72, 101, 108, 108, 111>>
QuoteFooBar == <<GT>> \o Foo \o <<LF>> \o Bar
FooHeading == Foo \o <<LF, HASH, SP, 72, 101, 97, 100, 105, 110, 103>>
QuoteFooHeading == <<GT>> \o FooHeading
HelloClosed == <<HASH, SP>> \o Hello \o <<SP, HASH>>
SevenHashes == <<HASH, HASH, HASH, HASH, HASH, HASH, HASH, SP, 120>>
StarFooStar == <<STAR>> \o Foo \o <<STAR>>
StrongFoo == <<STAR, STAR>> \o Foo \o <<STAR, STAR>>
Nested == <<STAR>> \o Foo \o <<SP, STAR, STAR>> \o Bar \o <<STAR, STAR, SP, 98, 97, 122, STAR>>
ThreeSpacesDashes == <<SP, SP, SP, DASH, SP, DASH, SP, DASH>>

\* ---------------------------------------------------------------------- C1
\* The loop over the open containers is at a fixed point: its test holds and
\* a turn of its body leaves every variable as it is, so the same turn
\* repeats for ever and incorporateLine never returns.
Spinning ==
    /\ pc = "redescend"
    /\ lastChild # 0
    /\ nodes[lastChild].open
    /\ RedescendTurn.st = "Matched"
    /\ RedescendTurn.m.ok
    /\ RedescendTurn.m.p = p
    /\ RedescendTurn.m.nodes = nodes
    /\ container = lastChild
    /\ allMatched

\* C1: for every input buffer parse terminates: every incorporateLine call
\* returns (the loop over the open containers never reaches a state it
\* repeats for ever), also when a non-blank line follows a line that left a
\* Paragraph open as the last child of Document.
C1_Terminates == ~Spinning

\* ---------------------------------------------------------------------- C2
\* C2: for every input buffer, the empty one included, parse runs without a
\* runtime abort and the tree it returns has a Document root.
C2_NoAbort == pc # "panic" /\ (Returned => nodes[1].Type = "Document")

\* ---------------------------------------------------------------------- C3
\* a line that is not blank, whose first byte after the indentation is not
\* >, and that no block start trigger matches (an indented line matches none)
LazyLine(line) ==
    /\ Rest(line) # <<>>
    /\ Rest(line)[1] # GT
    /\ \/ Indent(line) >= CodeIndent
       \/ reATXHeaderMarker(Rest(line)) = -1 /\ ~reHrule(Rest(line))

\* the tip was an open Paragraph in a BlockQuote and the line is lazy
LazyCase ==
    /\ ParagraphWasOpen
    /\ pre.nodes[pre.tip].parent # 0
    /\ pre.nodes[pre.nodes[pre.tip].parent].Type = "BlockQuote"
    /\ LazyLine(Line)

\* incorporateLine has left every node as it was, but for the line (from
\* its first non-space byte, with a line break) at the end of the content of
\* the Paragraph that was the tip
LineAppendedOnly ==
    /\ Len(nodes) = pre.nNodes
    /\ Len(fin) = pre.nFin
    /\ p.tip = pre.tip
    /\ nodes = [pre.nodes EXCEPT ![pre.tip].content = @ \o Rest(Line) \o <<LF>>]

\* the tree of >foo LF bar after the block phase, with the given content
QuoteFooBarTree(content) ==
    /\ Len(nodes) = 3
    /\ Children(nodes, 1) = <<2>>
    /\ nodes[2].Type = "BlockQuote"
    /\ Children(nodes, 2) = <<3>>
    /\ nodes[3].Type = "Paragraph"
    /\ Children(nodes, 3) = <<>>
    /\ nodes[3].content = content

\* C3 (as amended): when the tip is an open Paragraph inside a BlockQuote
\* and the next line is non-blank, does not start with > and matches no
\* block start trigger, incorporateLine appends the line and a line break to
\* that Paragraph and neither closes nor opens a block; >foo followed by bar
\* gives one BlockQuote under Document with one Paragraph whose raw content
\* is foo LF bar LF, which the inline pass trims to foo LF bar.
C3_LazyContinuation ==
    /\ (LineDone(i) /\ LazyCase) => LineAppendedOnly
    /\ (pc = "processInlines" /\ input = QuoteFooBar) =>
           /\ QuoteFooBarTree(Foo \o <<LF>> \o Bar \o <<LF>>)
           /\ Trim(nodes[3].content) = Foo \o <<LF>> \o Bar

\* C3 (as stated): the same, with the content of the Paragraph of >foo LF
\* bar being foo LF bar.
C3_AsStated ==
    /\ (LineDone(i) /\ LazyCase) => LineAppendedOnly
    /\ (pc = "processInlines" /\ input = QuoteFooBar) =>
           QuoteFooBarTree(Foo \o <<LF>> \o Bar)

\* the second line of >foo LF bar has been appended to the Paragraph
C3_Witness ==
    /\ LineDone(2)
    /\ input = QuoteFooBar
    /\ LazyCase
    /\ nodes[3].content = Foo \o <<LF>> \o Bar \o <<LF>>

\* ---------------------------------------------------------------------- C4
\* a line that is an ATX heading: fewer than four spaces, one to six #, then
\* a space or the end of the line
HeadingLine(line) ==
    /\ Indent(line) < CodeIndent
    /\ RunLen(Rest(line), 0, HASH) \in 1..MaxHeaderLevel
    /\ \/ RunLen(Rest(line), 0, HASH) = Len(Rest(line))
       \/ Rest(line)[RunLen(Rest(line), 0, HASH) + 1] = SP

\* C4: a heading line incorporated right after a line that left a Paragraph
\* open interrupts the Paragraph: incorporateLine returns, the Paragraph is
\* closed with its content unchanged, a new open Header is its next sibling
\* and the line is not appended to the Paragraph.
C4_HeadingInterrupts ==
    (ParagraphWasOpen /\ HeadingLine(Line)) =>
        /\ InLine => ~Spinning
        /\ LineDone(i) =>
              /\ ~nodes[pre.tip].open
              /\ nodes[pre.tip].content = pre.nodes[pre.tip].content
              /\ Len(nodes) = pre.nNodes + 1
              /\ nodes[Len(nodes)].Type = "Header"
              /\ nodes[Len(nodes)].open
              /\ nodes[pre.tip].next = Len(nodes)
              /\ nodes[Len(nodes)].parent = nodes[pre.tip].parent

\* ---------------------------------------------------------------------- C5
\* a line that starts, after fewer than four spaces, with a run of # that a
\* space or the end of the line follows
HashLine(line) ==
    /\ Indent(line) < CodeIndent
    /\ RunLen(Rest(line), 0, HASH) >= 1
    /\ \/ RunLen(Rest(line), 0, HASH) = Len(Rest(line))
       \/ Rest(line)[RunLen(Rest(line), 0, HASH) + 1] = SP

Hashes(line) == RunLen(Rest(line), 0, HASH)

\* what follows the run of # and the spaces after it
AfterMarker(line) ==
    SliceFrom(Rest(line), Hashes(line) + RunLen(Rest(line), Hashes(line), SP))

\* t is a closing sequence: spaces, one or more #, spaces
IsClosing(t) ==
    LET a == RunLen(t, 0, SP)
        h == RunLen(t, a, HASH)
        b == RunLen(t, a + h, SP)
    IN h >= 1 /\ a + h + b = Len(t)

\* the text of a heading: the shortest prefix of `after` that leaves nothing
\* or a closing sequence, which a space must separate from the text
HeadingText(after) ==
    LET ok == {j \in 0..Len(after) :
                  \/ j = Len(after)
                  \/ /\ IsClosing(SliceFrom(after, j))
                     /\ (j = 0 \/ after[j + 1] = SP)}
    IN Slice(after, 0, CHOOSE j \in ok : \A k \in ok : j <= k)

\* every Header has a level from 1 to 6
HeaderLevelsInRange ==
    \A n \in 1..Len(nodes) :
        nodes[n].Type = "Header" => nodes[n].level \in 1..MaxHeaderLevel

\* incorporateLine has opened one Header of the level of the line, with the
\* given content
OneHeader(content) ==
    /\ Len(nodes) = pre.nNodes + 1
    /\ nodes[Len(nodes)].Type = "Header"
    /\ nodes[Len(nodes)].level = Hashes(Line)
    /\ nodes[Len(nodes)].content = content

\* incorporateLine has opened no Header and the line is at the end of the
\* content of a Paragraph
NoHeaderButParagraph ==
    /\ \A n \in NewNodes : nodes[n].Type = "Paragraph"
    /\ p.tip # 0
    /\ nodes[p.tip].Type = "Paragraph"
    /\ Len(nodes[p.tip].content) >= Len(Rest(Line)) + 1
    /\ SliceFrom(nodes[p.tip].content,
                 Len(nodes[p.tip].content) - Len(Rest(Line)) - 1) = Rest(Line) \o <<LF>>

HruleMarkers == {<<STAR, STAR, STAR>>, <<DASH, SP, DASH, SP, DASH>>,
                 <<UNDERSCORE, UNDERSCORE, UNDERSCORE>>}

\* a line that is leading spaces and one of the three markers
HruleLine(line) == Rest(line) \in HruleMarkers

OnlyChild(n, typ) == KidTypes(n) = <<typ>>

\* C7: after the inline pass matched delimiter runs are spans: *foo* is
\* Emph[Text(foo)], **foo** is Strong[Text(foo)], *foo **bar** baz* is
\* Emph[Text(foo ), Strong[Text(bar)], Text( baz)], and no Text literal of
\* these holds a *.
C7_EmphasisResolved ==
    (pc = "done" /\ input \in {StarFooStar, StrongFoo, Nested}) =>
        /\ nodes[2].Type = "Paragraph"
        /\ OnlyChild(2, IF input = StrongFoo THEN "Strong" ELSE "Emph")
        /\ \A n \in 1..Len(nodes) :
               nodes[n].Type = "Text" => \A k \in 1..Len(nodes[n].literal) :
                                             nodes[n].literal[k] # STAR
        /\ input = StarFooStar =>
               /\ OnlyChild(nodes[2].firstChild, "Text")
               /\ Literals(nodes[2].firstChild) = <<Foo>>
        /\ input = StrongFoo =>
               /\ OnlyChild(nodes[2].firstChild, "Text")
               /\ Literals(nodes[2].firstChild) = <<Foo>>
        /\ input = Nested =>
               /\ KidTypes(nodes[2].firstChild) = <<"Text", "Strong", "Text">>
               /\ Literals(nodes[2].firstChild)[1] = Foo \o <<SP>>
               /\ Literals(nodes[2].firstChild)[3] = <<SP, 98, 97, 122>>

\* ---------------------------------------------------------------------- C8
\* the inline parse of the Paragraph or Header `node` has just ended
InlineParsed ==
    /\ pc = "inlinesNext"
    /\ nodes[node].Type \in {"Paragraph", "Header"}

\* C8: unmatched delimiters are never dropped: when the inline parse of a
\* Paragraph or Header ends, every * or _ of its trimmed content is, at the
\* same position, in the concatenation of the literals of its Text children,
\* and no span node was made (no delimiter was consumed by a match).
C8_DelimitersKept ==
    InlineParsed =>
        \A k \in 1..Len(subject) :
            subject[k] \in {STAR, UNDERSCORE} =>
                /\ k <= Len(Concat(Literals(node)))
                /\ Concat(Literals(node))[k] = subject[k]

\* ---------------------------------------------------------------------- C9
\* n and its ancestors
RECURSIVE Chain(_, _)
Chain(n, fuel) ==
    IF n = 0 \/ fuel = 0 THEN {} ELSE {n} \cup Chain(nodes[n].parent, fuel - 1)

\* how often n is in the log of finalize
Finalized(n) == Cardinality({k \in 1..Len(fin) : fin[k] = n})

\* C9: while the end-of-input loop runs the open nodes are the tip and its
\* ancestors, so the loop closes them from the tip upward to Document; when
\* the block phase ends every node is closed, was finalized exactly once,
\* and was finalized before its parent.
C9_AllClosedOnce ==
    /\ pc = "finalize" =>
           {n \in 1..Len(nodes) : nodes[n].open} = Chain(p.tip, Len(nodes))
    /\ pc = "processInlines" =>
           /\ \A n \in 1..Len(nodes) : ~nodes[n].open /\ Finalized(n) = 1
           /\ \A j, k \in 1..Len(fin) : nodes[fin[j]].parent = fin[k] => j < k
           /\ fin[Len(fin)] = 1

\* the block phase of >foo LF bar has ended: the end-of-input loop has
\* closed the Paragraph, the BlockQuote and the Document, in this order
C9_Witness ==
    /\ pc = "processInlines"
    /\ input = QuoteFooBar
    /\ fin = <<3, 2, 1>>
    /\ pre.nFin = 0
    /\ \A n \in 1..3 : ~nodes[n].open

\* --------------------------------------------------------------------- C10
\* the visits of the subtree of n: a container is entered, its children are
\* visited in sibling order, and it is exited; a leaf is entered
RECURSIVE ExpectedVisits(_, _)
RECURSIVE VisitsOfAll(_, _)
ExpectedVisits(n, fuel) ==
    IF fuel = 0 THEN <<>>
    ELSE IF isContainer(nodes[n].Type)
         THEN <<[node |-> n, entering |-> TRUE]>>
              \o VisitsOfAll(Children(nodes, n), fuel - 1)
              \o <<[node |-> n, entering |-> FALSE]>>
         ELSE <<[node |-> n, entering |-> TRUE]>>

VisitsOfAll(kids, fuel) ==
    IF kids = <<>> THEN <<>>
    ELSE ExpectedVisits(Head(kids), fuel) \o VisitsOfAll(Tail(kids), fuel)

\* C10: driving next from a start node until the end signal yields, for
\* every container of the subtree, the start node included, one entering
\* visit, the visits of its children in sibling order and one exiting visit,
\* and for every leaf one entering visit.
C10_WalkOrder ==
    pc = "walked" => visits = ExpectedVisits(walker.root, Len(nodes))

\* --------------------------------------------------------------------- C11
\* n and its descendants
RECURSIVE Subtree(_, _)
Subtree(n, fuel) ==
    IF n = 0 \/ fuel = 0 THEN {}
    ELSE {n} \cup UNION {Subtree(Children(nodes, n)[k], fuel - 1) :
                            k \in 1..Len(Children(nodes, n))}

\* C11: from any start node, calling next again and again reaches the end
\* signal within two calls per node of the tree, yields no node outside the
\* subtree of the start node, and after the end signal every later call
\* returns the end signal.
C11_WalkEndsInside ==
    /\ pc \in {"walking", "walked"} =>
           /\ Len(visits) <= 2 * Len(nodes)
           /\ \A k \in 1..Len(visits) :
                  visits[k].node \in Subtree(walker.root, Len(nodes))
    /\ pc = "again" => node = 0

\* --------------------------------------------------------------------- C12
\* s without n
Without(s, n) == SelectSeq(s, LAMBDA x : x # n)

\* the links of the arena ns agree: the children of n reached from firstChild
\* by next are the nodes whose parent is n, each once, the last of them is
\* lastChild, prev is the inverse of next, and a node without a parent has no
\* siblings
WellLinked(ns) ==
    \A n \in 1..Len(ns) :
        /\ (ns[n].firstChild = 0) <=> (ns[n].lastChild = 0)
        /\ ns[n].firstChild # 0 => ns[ns[n].firstChild].prev = 0
        /\ ns[n].lastChild # 0 =>
               /\ ns[ns[n].lastChild].next = 0
               /\ Children(ns, n)[Len(Children(ns, n))] = ns[n].lastChild
        /\ ns[n].next # 0 => ns[ns[n].next].prev = n
        /\ ns[n].prev # 0 => ns[ns[n].prev].next = n
        /\ ns[n].parent = 0 => ns[n].prev = 0 /\ ns[n].next = 0
        /\ {Children(ns, n)[k] : k \in 1..Len(Children(ns, n))}
               = {c \in 1..Len(ns) : ns[c].parent = n}
        /\ Len(Children(ns, n)) = Cardinality({c \in 1..Len(ns) : ns[c].parent = n})
        /\ n \notin Ancestors(ns, ns[n].parent, Len(ns))

\* what parent.appendChild(child) has done to the arena
AppendChildPost(parent, child) ==
    /\ nodes'[child].parent = parent
    /\ nodes'[child].next = 0
    /\ nodes'[parent].lastChild = child
    /\ nodes'[child].prev =
           IF Without(Children(nodes, parent), child) = <<>> THEN 0
           ELSE Without(Children(nodes, parent), child)[
                    Len(Without(Children(nodes, parent), child))]
    /\ \A q \in 1..Len(nodes) :
           Children(nodes', q) =
               IF q = parent THEN Append(Without(Children(nodes, q), child), child)
               ELSE Without(Children(nodes, q), child)

\* what n.unlink() has done to the arena
UnlinkPost(n) ==
    /\ nodes'[n].parent = 0
    /\ nodes'[n].prev = 0
    /\ nodes'[n].next = 0
    /\ \A q \in 1..Len(nodes) : Children(nodes', q) = Without(Children(nodes, q), n)

\* a call of appendChild or unlink has the effect the claim gives it
TreeStepPost ==
    /\ \A parent, child \in 1..MaxNodes :
           TreeAppend(parent, child) => AppendChildPost(parent, child)
    /\ \A n \in 1..MaxNodes : TreeUnlink(n) => UnlinkPost(n)

\* C12: after any sequence of appendChild and unlink calls (the child not
\* the parent nor one of its ancestors) the links agree; appendChild leaves
\* the child as the parent's lastChild with next nil and prev the former last
\* child, and takes it out of the child list it was in; unlink leaves the
\* node without parent, prev and next; the other siblings keep their order.
C12_LinksConsistent == [](WellLinked(nodes)) /\ [][TreeStepPost]_vars

\* appendChild has made 2 the child of 1 and 4 and 3, in this order, the
\* children of 2
C12_Witness ==
    /\ pc = "tree"
    /\ Children(nodes, 1) = <<2>>
    /\ Children(nodes, 2) = <<4, 3>>

\* --------------------------------------------------------------------- C13
\* the HTML entity of a byte, or the byte
Entity(c) ==
    CASE c = AMP -> <<AMP, 97, 109, 112, 59>>
      [] c = LT -> <<AMP, 108, 116, 59>>
      [] c = GT -> <<AMP, 103, 116, 59>>
      [] c = DQUOTE -> <<AMP, 113, 117, 111, 116, 59>>
      [] OTHER -> <<c>>

HtmlEscape(t) == Concat([k \in 1..Len(t) |-> Entity(t[k])])

\* forEachNode(ast) of render has ended on the parsed Document
Rendered == pc = "walked" /\ walker.root = 1

\* C13: render HTML-escapes literal text: what render writes for a Text
\* node is its literal with each &, <, > and " replaced by its entity and
\* every other byte unchanged.
C13_TextEscaped ==
    Rendered =>
        \A k \in 1..Len(visits) :
            nodes[visits[k].node].Type = "Text" =>
                render(nodes, SubSeq(visits, 1, k)).buff =
                    render(nodes, SubSeq(visits, 1, k - 1)).buff
                        \o HtmlEscape(nodes[visits[k].node].literal)

\* --------------------------------------------------------------------- C14
\* the last child of Document was an open BlockQuote when incorporateLine
\* was entered, and the line starts, after fewer than four spaces, with >
QuoteContinued ==
    /\ pre.line >= 1
    /\ pre.nodes[1].lastChild # 0
    /\ pre.nodes[pre.nodes[1].lastChild].Type = "BlockQuote"
    /\ pre.nodes[pre.nodes[1].lastChild].open
    /\ Indent(Line) < CodeIndent
    /\ Rest(Line) # <<>>
    /\ Rest(Line)[1] = GT

\* C14: when a BlockQuote is open and the next line starts with > after
\* fewer than four columns of indentation, the BlockQuote is matched (it is
\* lastMatchedContainer or an ancestor of it), it is still open after the
\* line, and every block the line creates is a descendant of it and not a
\* child of Document.
C14_QuoteContinues ==
    (LineDone(i) /\ QuoteContinued) =>
        /\ pre.nodes[1].lastChild \in Ancestors(nodes, p.lastMatchedContainer, Len(nodes))
        /\ nodes[pre.nodes[1].lastChild].open
        /\ \A n \in NewNodes :
               /\ nodes[n].parent # 1
               /\ pre.nodes[1].lastChild \in Ancestors(nodes, n, Len(nodes))

\* --------------------------------------------------------------------- C15
\* how often InlineParser.parse was called on n
ParseCalls(n) == Cardinality({k \in 1..Len(parsed) : parsed[k] = n})

\* C15: the inline parser is called only on Paragraph and Header nodes and
\* only when every block node is closed; when parse returns it has been
\* called exactly once on each Paragraph and each Header; a node never gets
\* its inline children a second time.
C15_InlineOnce ==
    /\ \A k \in 1..Len(parsed) : nodes[parsed[k]].Type \in {"Paragraph", "Header"}
    /\ pc = "inline" =>
           /\ \A n \in 1..Len(nodes) : nodes[n].Type # "Text" => ~nodes[n].open
           /\ ParseCalls(node) > 1 => subject = <<>>
    /\ pc = "done" =>
           \A n \in 1..Len(nodes) :
               nodes[n].Type \in {"Paragraph", "Header"} => ParseCalls(n) = 1

\* --------------------------------------------------------------------- C16
\* the first inline parse of `node` has just ended
FirstParseEnded == InlineParsed /\ ParseCalls(node) = 1

\* where the k-th child literal of `node` starts in the concatenation
LiteralStart(k) == Len(Concat(SubSeq(Literals(node), 1, k - 1)))

\* the literal l, found at 0-based position at of the buffer s, is a token:
\* a whole run of * or of _, one other special byte, or a maximal run of
\* non-special bytes
IsToken(s, at, l) ==
    /\ l # <<>>
    /\ at + Len(l) <= Len(s)
    /\ l = Slice(s, at, at + Len(l))
    /\ IF l[1] \in {STAR, UNDERSCORE} THEN Len(l) = RunLen(s, at, l[1])
       ELSE IF IsSpecial(l[1]) THEN Len(l) = 1
       ELSE /\ \A k \in 1..Len(l) : ~IsSpecial(l[k])
            /\ at + Len(l) < Len(s) => IsSpecial(s[at + Len(l) + 1])

\* C16: the tokenize pass consumes the whole trimmed buffer, whatever its
\* bytes: the scan stops at its end, the literals of the Text children
\* concatenate to the buffer, and each child is one token (a maximal run of
\* non-special bytes, a whole run of * or _, or one other special byte).
C16_WholeBuffer ==
    FirstParseEnded =>
        /\ pos = Len(subject)
        /\ Concat(Literals(node)) = subject
        /\ \A k \in 1..Len(Literals(node)) :
               /\ nodes[Children(nodes, node)[k]].Type = "Text"
               /\ IsToken(subject, LiteralStart(k), Literals(node)[k])

\* --------------------------------------------------------------------- C17
\* the block phase of parse is running
BlockPhase == pc \in {"lines", "redescend", "matched", "blockstart", "addtext", "finalize"}

\* a step has changed the content of a node, or made a node with content,
\* only if the node is open after the step; it has left the content, the end
\* position and the children of every closed node as they were
ClosedFrozenStep ==
    /\ \A n \in 1..Len(nodes') :
           (IF n <= Len(nodes) THEN nodes'[n].content # nodes[n].content
            ELSE nodes'[n].content # <<>>) => nodes'[n].open
    /\ \A n \in 1..Len(nodes) :
           ~nodes[n].open =>
               /\ nodes'[n].content = nodes[n].content
               /\ nodes'[n].endLine = nodes[n].endLine
               /\ nodes'[n].endChar = nodes[n].endChar
               /\ Children(nodes', n) = Children(nodes, n)
               /\ ~nodes'[n].open

QuoteHeaderRule == <<GT, SP, HASH, SP, 72, LF, LF, DASH, SP, DASH, SP, DASH>>

\* C17: in the block phase raw content is appended only to an open node,
\* and once a node is finalized its content, its end line and column and its
\* list of children are left unchanged by every later step of incorporateLine
\* and finalize.
C17_ClosedFrozen == [][BlockPhase => ClosedFrozenStep]_vars

\* the third line of > # H, blank, - - - has been incorporated after the
\* Header and the BlockQuote were finalized by the second
C17_Witness ==
    /\ LineDone(3)
    /\ input = QuoteHeaderRule
    /\ ~nodes[2].open
    /\ ~nodes[3].open
    /\ nodes[3].Type = "Header"
    /\ nodes[3].content = <<72>>
    /\ nodes[3].endLine = 1
    /\ Children(nodes, 2) = <<3>>
    /\ Len(nodes) = 4

\* --------------------------------------------------------------------- C18
\* the open nodes
OpenNodes == {n \in 1..Len(nodes) : nodes[n].open}

\* C18: after every incorporateLine call that returns, the tip is not nil,
\* the open nodes are the tip and its ancestors up to Document, each open
\* node but Document is the last child of its parent, and no closed node has
\* an open descendant.
C18_OpenChain ==
    LineDone(i) =>
        /\ p.tip # 0
        /\ OpenNodes = Chain(p.tip, Len(nodes))
        /\ 1 \in OpenNodes
        /\ \A n \in OpenNodes \ {1} :
               /\ nodes[n].parent # 0
               /\ nodes[nodes[n].parent].lastChild = n
        /\ \A n \in 1..Len(nodes) :
               ~nodes[n].open => Subtree(n, Len(nodes)) \cap OpenNodes = {}

\* after the second line of >foo LF bar the open nodes are the Paragraph,
\* the BlockQuote and the Document
C18_Witness ==
    /\ LineDone(2)
    /\ input = QuoteFooBar
    /\ p.tip = 3
    /\ OpenNodes = {1, 2, 3}

\* --------------------------------------------------------------------- C19
\* the blocks a step has finalized, as positions of the log of finalize
JustFinalized == (Len(fin) + 1)..Len(fin')

\* the blocks a step has finalized have the end position of the line before
\* the one being incorporated, or, at the end of the input, of the last line;
\* the end line is not before the start line, and the tip is the parent of
\* the block finalized last
FinalizeStampStep ==
    /\ \A k \in JustFinalized :
           /\ IF pc = "finalize"
              THEN /\ nodes'[fin'[k]].endLine = numLines
                   /\ nodes'[fin'[k]].endChar = Len(lines[numLines])
              ELSE /\ InLine
                   /\ pre.line >= 2
                   /\ nodes'[fin'[k]].endLine = pre.line - 1
                   /\ nodes'[fin'[k]].endChar = Len(lines[pre.line - 1])
           /\ nodes'[fin'[k]].endLine >= nodes'[fin'[k]].line
           /\ ~nodes'[fin'[k]].open
    /\ pc = "finalize" /\ JustFinalized # {} =>
           p'.tip = nodes[fin'[Len(fin')]].parent

\* C19: a block finalized while line n (n >= 2) is incorporated gets endLine
\* n-1 and endChar the length of line n-1; a block finalized at the end of the
\* input gets endLine the number of lines and endChar the length of the last
\* line; endLine is never before the start line of the node, and finalize
\* moves the tip to the parent of the finalized node.
C19_EndStamp == [][FinalizeStampStep]_vars

\* >foo LF # Heading: the second line has finalized the Paragraph and the
\* BlockQuote of the first with end position (1, 4)
C19_Witness ==
    /\ LineDone(2)
    /\ input = QuoteFooHeading
    /\ fin = <<3, 2>>
    /\ nodes[3].endLine = 1
    /\ nodes[3].endChar = 4
    /\ nodes[2].endLine = 1
    /\ nodes[2].endChar = 4

\* --------------------------------------------------------------------- C20
\* the display column reached after the leading spaces and tabs of a line,
\* counted from column 0 at the start of the line
RECURSIVE LeadingColumns(_, _, _)
LeadingColumns(line, k, col) ==
    IF k < Len(line) /\ line[k + 1] = SP THEN LeadingColumns(line, k + 1, col + 1)
    ELSE IF k < Len(line) /\ line[k + 1] = TAB
         THEN LeadingColumns(line, k + 1, (col \div TabStop + 1) * TabStop)
    ELSE col

TabStars == <<TAB, STAR, STAR, STAR>>

\* C20: the indent and the indented flag that findNextNonspace computes for
\* a line of which nothing is consumed yet depend only on the leading
\* whitespace of the line, each tab going to the next multiple of 4 counted
\* from column 0; a line TAB *** never becomes a HorizontalRule, whatever
\* lines came before it.
C20_ColumnsPerLine ==
    /\ (pc = "blockstart" /\ ~matchedLeaf /\ p.offset = 0) =>
           /\ findNextNonspace(p).indent = LeadingColumns(Line, 0, 0)
           /\ findNextNonspace(p).indented = (LeadingColumns(Line, 0, 0) >= CodeIndent)
    /\ (LineDone(i) /\ Line = TabStars) =>
           \A n \in NewNodes : nodes[n].Type # "HorizontalRule"

\* --------------------------------------------------------------------- C21
\* a line that is empty or only spaces and tabs
BlankLine(line) == \A k \in 1..Len(line) : line[k] \in {SP, TAB}

\* the number of leading spaces and tabs of a line
RECURSIVE LeadingBlanks(_, _)
LeadingBlanks(line, k) ==
    IF k < Len(line) /\ line[k + 1] \in {SP, TAB} THEN LeadingBlanks(line, k + 1) ELSE k

\* a line that is not blank and, whatever its indentation, neither starts
\* with > nor matches a block start trigger
PlainLine(line) ==
    /\ ~BlankLine(line)
    /\ SliceFrom(line, LeadingBlanks(line, 0))[1] # GT
    /\ reATXHeaderMarker(SliceFrom(line, LeadingBlanks(line, 0))) = -1
    /\ ~reHrule(SliceFrom(line, LeadingBlanks(line, 0)))

\* the Paragraph nodes of an arena
Paragraphs(ns) == {n \in 1..Len(ns) : ns[n].Type = "Paragraph"}

QuoteBlankPlain == <<GT, SP, 97, LF, LF, 98>>

\* C21: when incorporateLine returns from a blank line it has created no
\* node, no Paragraph is open, and every Paragraph has the content it had;
\* when it returns from a plain non-blank line that follows a blank line it
\* has created one node, a new open Paragraph that holds the line, and has
\* left the content of the older Paragraphs as it was.
C21_BlankLineEndsParagraph ==
    /\ (LineDone(i) /\ BlankLine(Line)) =>
           /\ NewNodes = {}
           /\ \A n \in Paragraphs(nodes) :
                  /\ ~nodes[n].open
                  /\ nodes[n].content = pre.nodes[n].content
    /\ (LineDone(i) /\ i >= 2 /\ BlankLine(lines[i - 1]) /\ PlainLine(Line)) =>
           /\ Len(nodes) = pre.nNodes + 1
           /\ nodes[Len(nodes)].Type = "Paragraph"
           /\ nodes[Len(nodes)].open
           /\ nodes[Len(nodes)].content =
                  SliceFrom(Line, LeadingBlanks(Line, 0)) \o <<LF>>
           /\ p.tip = Len(nodes)
           /\ \A n \in Paragraphs(pre.nodes) :
                  nodes[n].content = pre.nodes[n].content

\* > a, a blank line, b: the blank line has closed the Paragraph of a with
\* its content, and b is in a new Paragraph
C21_Witness ==
    /\ LineDone(3)
    /\ input = QuoteBlankPlain
    /\ BlankLine(lines[2])
    /\ PlainLine(Line)
    /\ nodes[3].Type = "Paragraph"
    /\ ~nodes[3].open
    /\ nodes[3].content = <<97, LF>>
    /\ nodes[4].Type = "Paragraph"
    /\ nodes[4].open
    /\ nodes[4].content = <<98, LF>>

====
